---- MODULE Spec2Model ----
(***************************************************************************)
(* A model of js/main.js of the BridgeVoice website: the rate limiting     *)
(* wrappers throttle and debounce over the browser's timer queue, and the  *)
(* contact form validator validateForm.                                    *)
(*                                                                         *)
(* Strings are sequences of one-character strings.  Every character of the *)
(* model stands for one class the code tells apart: " " for white space    *)
(* (what trim removes and \s matches), "@", "." and "a" for anything else. *)
(***************************************************************************)
EXTENDS Integers, Sequences, FiniteSets, TLC

\* ------------------------------------------------------------------ bounds
\* The clock stops at MaxTime ticks.
MaxTime == 4
\* At most MaxCalls calls are made to the wrappers, all wrappers together.
MaxCalls == 3
\* The limit / wait every wrapper is built with, in ticks.
Limit == 2
Wait == 2
\* The longest email the form is filled with.
MaxEmailLen == 6
\* At most MaxFormCalls calls of validateForm are made on one mapping.
MaxFormCalls == 2
\* The longest value typed into the field validateField is called on.
MaxFieldLen == 5
\* At most MaxSubmits submit events reach the contact form.
MaxSubmits == 2
\* The 5000 ms of the success message's auto-hide timer, in ticks.
HideDelay == 2

\* --------------------------------------------------------------- wrappers
\* throttle(fn, Limit), twice over the same fn.
Throttled == {"t1", "t2"}
\* debounce(fn, Wait) twice, and debounce(fn, Wait, true).
Debounced == {"d1", "d2", "i1"}
Wrappers == Throttled \cup Debounced
immediate(w) == w = "i1"
\* The arguments a call passes on.
ArgVals == {"x", "y"}

\* `let timeout;` starts undefined; later sets `timeout = null`.
Undefined == 0
Null == -1

VARIABLES
    now,         \* the clock, in ticks
    nextId,      \* the id the next setTimeout returns
    timers,      \* the timer queue: the callbacks scheduled and not yet run
    inThrottle,  \* per throttled wrapper: its closure's inThrottle
    timeout,     \* per debounced wrapper: its closure's timeout
    ncalls,      \* per wrapper: how many calls were made to it
    lastArgs,    \* per wrapper: the arguments of the latest call made to it
    invoked,     \* per wrapper: the invocations of fn it made, in order
    data,        \* the mapping handed to validateForm
    errors,      \* the list validateForm returned
    formChecked, \* whether errors is what the latest call validateForm(data) returned
    formCalls,   \* how many calls validateForm(data) were made
    firstErrors, \* the list the first call validateForm(data) returned
    formThrew,   \* whether the latest call validateForm(data) ended in a TypeError
    field,       \* the input or textarea validateField is called on
    container,   \* the .error-message elements of field.parentNode, in order
    fieldValid,  \* what validateField returned, "none" once the value was edited
    values,      \* the contact form: the value of each of its fields
    formMessages,\* the contact form: its .form-message elements, in order
    submits,     \* how many submit events the contact form handled
    resets,      \* how many times form.reset() was called
    lastHide,    \* what the latest auto-hide callback did
    nav,         \* the menu's and the toggle's classes, aria-expanded, focus, scroll
    lastEvent,   \* the latest click or keydown event, and whether it found the menu open
    frames       \* the call stack: the invocations of fn that have not returned yet

vars == <<now, nextId, timers, inThrottle, timeout, ncalls, lastArgs, invoked,
          data, errors, formChecked, formCalls, firstErrors, formThrew,
          field, container, fieldValid,
          values, formMessages, submits, resets, lastHide, nav, lastEvent,
          frames>>
rateVars == <<now, nextId, timers, inThrottle, timeout, ncalls, lastArgs, invoked,
             frames>>
checkVars == <<data, errors, formChecked, formCalls, firstErrors, formThrew>>
fieldVars == <<field, container, fieldValid>>
pageVars == <<values, formMessages, submits, resets, lastHide, nav, lastEvent>>
wrapperVars == <<inThrottle, timeout, ncalls, lastArgs, invoked, frames>>
\* What a wrapper whose fn returns at once, and its timers, leave alone.
formVars == <<checkVars, fieldVars, pageVars, frames>>

\* ---------------------------------------------------------------- helpers
RECURSIVE Sum(_, _)
Sum(f, S) ==
    IF S = {} THEN 0
    ELSE LET w == CHOOSE x \in S : TRUE IN f[w] + Sum(f, S \ {w})

\* The calls made so far, all wrappers together.
TotalCalls == Sum(ncalls, Wrappers)

\* The caller's side of a call of wrapper w with arguments a.
Called(w, a) ==
    /\ ncalls' = [ncalls EXCEPT ![w] = @ + 1]
    /\ lastArgs' = [lastArgs EXCEPT ![w] = a]

\* JavaScript's !v for what timeout holds: undefined, null or a timer id (ids
\* are positive, so an id is never falsy).
Falsy(v) == v = Undefined \/ v = Null

\* JavaScript's !v for what inThrottle holds: undefined, true or false.
Not(v) == v \in {"undefined", "false"}

\* setTimeout(cb, delay): a new entry of the timer queue under a fresh id.
\* call is the index of the wrapper call that scheduled cb, args the arguments
\* cb's closure uses ("none" for the reset callback, which uses none).
setTimeout(q, id, w, cb, delay, a, k) ==
    q \cup {[id |-> id, w |-> w, cb |-> cb, due |-> now + delay,
             args |-> a, call |-> k]}

\* clearTimeout that cancels nothing.
clearTimeoutNothing(q, id) == q

\* clearTimeout(id): no effect when id names no pending timer.
clearTimeout(q, id) == {t \in q : t.id # id}

\* func.apply(context, args), made for call k of wrapper w.
Apply(log, w, a, k) ==
    [log EXCEPT ![w] = Append(@, [args |-> a, call |-> k])]

\* ------------------------------------------------------------- throttle
\* The throttled function never setting inThrottle.
ThrottledCallNoFlag(w, a) ==
    /\ w \in Throttled
    /\ TotalCalls < MaxCalls
    /\ now + Limit <= MaxTime
    /\ Called(w, a)
    /\ IF Not(inThrottle[w])
       THEN /\ invoked' = Apply(invoked, w, a, ncalls[w] + 1)
            /\ timers' = setTimeout(timers, nextId, w, "reset", Limit, "none",
                                    ncalls[w] + 1)
            /\ nextId' = nextId + 1
       ELSE UNCHANGED <<invoked, timers, nextId>>
    /\ UNCHANGED <<now, timeout, inThrottle>>
    /\ UNCHANGED formVars

\* The throttled function scheduling the reset on every call, dropped or not.
ThrottledCallAlwaysSchedules(w, a) ==
    /\ w \in Throttled
    /\ TotalCalls < MaxCalls
    /\ now + Limit <= MaxTime
    /\ Called(w, a)
    /\ IF Not(inThrottle[w])
       THEN /\ invoked' = Apply(invoked, w, a, ncalls[w] + 1)
            /\ inThrottle' = [inThrottle EXCEPT ![w] = "true"]
       ELSE UNCHANGED <<invoked, inThrottle>>
    /\ timers' = setTimeout(timers, nextId, w, "reset", Limit, "none",
                            ncalls[w] + 1)
    /\ nextId' = nextId + 1
    /\ UNCHANGED <<now, timeout>>
    /\ UNCHANGED formVars

\* The throttled function over one inThrottle shared by every wrapper.
ThrottledCallSharedFlag(w, a) ==
    /\ w \in Throttled
    /\ TotalCalls < MaxCalls
    /\ now + Limit <= MaxTime
    /\ Called(w, a)
    /\ IF Not(inThrottle[w])
       THEN /\ invoked' = Apply(invoked, w, a, ncalls[w] + 1)
            /\ inThrottle' = [v \in Throttled |-> "true"]
            /\ timers' = setTimeout(timers, nextId, w, "reset", Limit, "none",
                                    ncalls[w] + 1)
            /\ nextId' = nextId + 1
       ELSE UNCHANGED <<invoked, inThrottle, timers, nextId>>
    /\ UNCHANGED <<now, timeout>>
    /\ UNCHANGED formVars

\* The function throttle returns, called with arguments a.
ThrottledCall(w, a) ==
    /\ w \in Throttled
    /\ TotalCalls < MaxCalls
    /\ now + Limit <= MaxTime
    /\ Called(w, a)
    /\ IF Not(inThrottle[w])
       THEN /\ invoked' = Apply(invoked, w, a, ncalls[w] + 1)
            /\ inThrottle' = [inThrottle EXCEPT ![w] = "true"]
            /\ timers' = setTimeout(timers, nextId, w, "reset", Limit, "none",
                                    ncalls[w] + 1)
            /\ nextId' = nextId + 1
       ELSE UNCHANGED <<invoked, inThrottle, timers, nextId>>
    /\ UNCHANGED <<now, timeout>>
    /\ UNCHANGED formVars

\* The arrow function throttle schedules: () => { inThrottle = false; }.
ThrottleReset(t) ==
    /\ t \in timers
    /\ t.cb = "reset"
    /\ t.due <= now
    /\ timers' = timers \ {t}
    /\ inThrottle' = [inThrottle EXCEPT ![t.w] = "false"]
    /\ UNCHANGED <<now, nextId, timeout, ncalls, lastArgs, invoked>>
    /\ UNCHANGED formVars

\* ------------------------------------------------- throttle, re-entrant
\* The function throttle returns, called with arguments a from the top level
\* or from inside a running fn, up to func.apply: fn starts running before
\* inThrottle is set.
ReentrantCall(w, a) ==
    /\ w \in Throttled
    /\ TotalCalls < MaxCalls
    /\ now + Limit <= MaxTime
    /\ Called(w, a)
    /\ IF Not(inThrottle[w])
       THEN /\ invoked' = Apply(invoked, w, a, ncalls[w] + 1)
            /\ frames' = Append(frames, [w |-> w, call |-> ncalls[w] + 1])
       ELSE UNCHANGED <<invoked, frames>>
    /\ UNCHANGED <<now, nextId, timers, inThrottle, timeout>>
    /\ UNCHANGED <<checkVars, fieldVars, pageVars>>

\* The innermost running fn returns, and the wrapper that invoked it goes on:
\* inThrottle = true, setTimeout(..., limit).
FnReturns ==
    /\ frames # <<>>
    /\ LET top == frames[Len(frames)]
       IN  /\ frames' = SubSeq(frames, 1, Len(frames) - 1)
           /\ inThrottle' = [inThrottle EXCEPT ![top.w] = "true"]
           /\ timers' = setTimeout(timers, nextId, top.w, "reset", Limit, "none",
                                   top.call)
           /\ nextId' = nextId + 1
    /\ UNCHANGED <<now, timeout, ncalls, lastArgs, invoked>>
    /\ UNCHANGED <<checkVars, fieldVars, pageVars>>

\* A timer callback runs only once the running code has returned.
ResetWhenIdle(t) ==
    /\ frames = <<>>
    /\ ThrottleReset(t)

\* ------------------------------------------------------------- debounce
\* The debounced function scheduling later without clearTimeout(timeout).
DebouncedCallNoClear(w, a) ==
    /\ w \in Debounced
    /\ TotalCalls < MaxCalls
    /\ now + Wait <= MaxTime
    /\ LET k == ncalls[w] + 1
           callNow == immediate(w) /\ Falsy(timeout[w])
       IN  /\ Called(w, a)
           /\ timers' = setTimeout(timers, nextId, w, "later", Wait, a, k)
           /\ timeout' = [timeout EXCEPT ![w] = nextId]
           /\ nextId' = nextId + 1
           /\ invoked' = IF callNow THEN Apply(invoked, w, a, k) ELSE invoked
    /\ UNCHANGED <<now, inThrottle>>
    /\ UNCHANGED formVars

\* The function debounce returns, called with arguments a.
DebouncedCall(w, a) ==
    /\ w \in Debounced
    /\ TotalCalls < MaxCalls
    /\ now + Wait <= MaxTime
    /\ LET k == ncalls[w] + 1
           callNow == immediate(w) /\ Falsy(timeout[w])
       IN  /\ Called(w, a)
           /\ timers' = setTimeout(clearTimeout(timers, timeout[w]),
                                   nextId, w, "later", Wait, a, k)
           /\ timeout' = [timeout EXCEPT ![w] = nextId]
           /\ nextId' = nextId + 1
           /\ invoked' = IF callNow THEN Apply(invoked, w, a, k) ELSE invoked
    /\ UNCHANGED <<now, inThrottle>>
    /\ UNCHANGED formVars

\* later calling func whatever immediate is.
LaterAlwaysCalls(t) ==
    /\ t \in timers
    /\ t.cb = "later"
    /\ t.due <= now
    /\ timers' = timers \ {t}
    /\ timeout' = [timeout EXCEPT ![t.w] = Null]
    /\ invoked' = Apply(invoked, t.w, t.args, t.call)
    /\ UNCHANGED <<now, nextId, inThrottle, ncalls, lastArgs>>
    /\ UNCHANGED formVars

\* later never calling func.
LaterNeverCalls(t) ==
    /\ t \in timers
    /\ t.cb = "later"
    /\ t.due <= now
    /\ timers' = timers \ {t}
    /\ timeout' = [timeout EXCEPT ![t.w] = Null]
    /\ UNCHANGED <<now, nextId, inThrottle, ncalls, lastArgs, invoked>>
    /\ UNCHANGED formVars

\* The function later of one call of a debounced wrapper, run by its timer.
Later(t) ==
    /\ t \in timers
    /\ t.cb = "later"
    /\ t.due <= now
    /\ timers' = timers \ {t}
    /\ timeout' = [timeout EXCEPT ![t.w] = Null]
    /\ invoked' = IF ~immediate(t.w)
                  THEN Apply(invoked, t.w, t.args, t.call)
                  ELSE invoked
    /\ UNCHANGED <<now, nextId, inThrottle, ncalls, lastArgs>>
    /\ UNCHANGED formVars

\* Time passes.  A timer runs at or after its due time, never before.
Tick ==
    /\ now < MaxTime
    /\ now' = now + 1
    /\ UNCHANGED <<nextId, timers, inThrottle, timeout, ncalls, lastArgs, invoked>>
    /\ UNCHANGED formVars


\* ------------------------------------------------------------ strings
Whitespace == {" "}
Chars == {" ", "@", ".", "a"}

\* The strings over alphabet A of length at most n.
Strings(A, n) == UNION {[1..k -> A] : k \in 0..n}

RECURSIVE TrimStart(_)
TrimStart(s) ==
    IF s # <<>> /\ Head(s) \in Whitespace THEN TrimStart(Tail(s)) ELSE s

RECURSIVE TrimEnd(_)
TrimEnd(s) ==
    IF s # <<>> /\ s[Len(s)] \in Whitespace
    THEN TrimEnd(SubSeq(s, 1, Len(s) - 1))
    ELSE s

\* String.prototype.trim
Trim(s) == TrimEnd(TrimStart(s))

\* [^\s@]+ matches exactly s[from..to]
PlainRun(s, from, to) ==
    /\ from <= to
    /\ \A k \in from..to : s[k] \notin Whitespace \cup {"@"}

\* /^[^\s@]+@[^\s@]+\.[^\s@]+$/.test(s)
emailPattern(s) ==
    \E i \in 1..Len(s), j \in 1..Len(s) :
        /\ s[i] = "@"
        /\ s[j] = "."
        /\ PlainRun(s, 1, i - 1)
        /\ PlainRun(s, i + 1, j - 1)
        /\ PlainRun(s, j + 1, Len(s))

\* ------------------------------------------------------- validateForm
Fields == {"name", "email", "message"}

NameRequired == "Name is required."
EmailRequired == "Email is required."
EmailInvalid == "Please enter a valid email address."
MessageRequired == "Message is required."

\* !d[f]?.trim(): the key is absent, or its value trims to the empty string.
Blank(d, f) == f \notin DOMAIN d \/ Trim(d[f]) = <<>>

\* data.name.trim(), without the ?.: a TypeError when the key is absent.
MemberTrim(d, f) == IF f \in DOMAIN d THEN "value" ELSE "TypeError"

\* What evaluating data.name?.trim() comes to: the trimmed value when the key
\* is present, undefined (and no call of trim) when it is absent.
OptionalTrim(d, f) == IF f \in DOMAIN d THEN "value" ELSE "undefined"

\* Whether validateForm(d) ends in a TypeError instead of returning.
Throws(d) == \E f \in Fields : OptionalTrim(d, f) = "TypeError"

\* validateForm pushing onto one array kept across calls.
validateFormSharedArray(d) ==
    LET e0 == errors
        e1 == IF Blank(d, "name") THEN Append(e0, NameRequired) ELSE e0
        e2 == IF Blank(d, "email") THEN Append(e1, EmailRequired)
              ELSE IF ~emailPattern(d["email"]) THEN Append(e1, EmailInvalid)
              ELSE e1
        e3 == IF Blank(d, "message") THEN Append(e2, MessageRequired) ELSE e2
    IN  e3

\* validateForm testing the values without trimming them: !data.name, ...
validateFormNoTrim(d) ==
    LET Empty(f) == f \notin DOMAIN d \/ d[f] = <<>>
        e0 == <<>>
        e1 == IF Empty("name") THEN Append(e0, NameRequired) ELSE e0
        e2 == IF Empty("email") THEN Append(e1, EmailRequired)
              ELSE IF ~emailPattern(d["email"]) THEN Append(e1, EmailInvalid)
              ELSE e1
        e3 == IF Empty("message") THEN Append(e2, MessageRequired) ELSE e2
    IN  e3

\* validateForm with the pattern test not negated: else if (/.../.test(data.email))
validateFormPatternInverted(d) ==
    LET e0 == <<>>
        e1 == IF Blank(d, "name") THEN Append(e0, NameRequired) ELSE e0
        e2 == IF Blank(d, "email") THEN Append(e1, EmailRequired)
              ELSE IF emailPattern(d["email"]) THEN Append(e1, EmailInvalid)
              ELSE e1
        e3 == IF Blank(d, "message") THEN Append(e2, MessageRequired) ELSE e2
    IN  e3

\* validateForm returning at the first field that fails.
validateFormFirstOnly(d) ==
    IF Blank(d, "name") THEN <<NameRequired>>
    ELSE IF Blank(d, "email") THEN <<EmailRequired>>
    ELSE IF ~emailPattern(d["email"]) THEN <<EmailInvalid>>
    ELSE IF Blank(d, "message") THEN <<MessageRequired>>
    ELSE <<>>

validateForm(d) ==
    LET e0 == <<>>
        e1 == IF Blank(d, "name") THEN Append(e0, NameRequired) ELSE e0
        e2 == IF Blank(d, "email") THEN Append(e1, EmailRequired)
              ELSE IF ~emailPattern(d["email"]) THEN Append(e1, EmailInvalid)
              ELSE e1
        e3 == IF Blank(d, "message") THEN Append(e2, MessageRequired) ELSE e2
    IN  e3

\* The mapping with the name, email and message entries n, e and m.
FormData(n, e, m) ==
    LET entry == [name |-> n, email |-> e, message |-> m]
    IN  [f \in {g \in Fields : entry[g].present} |-> entry[f].value]

\* What a name or a message is filled with: nothing, white space only, text.
TextValues == {<<>>, <<" ">>, <<"a">>}
\* What an email is filled with.
EmailValues == Strings(Chars, MaxEmailLen)

\* A key of the mapping: absent, or present with one of the values V.
Entries(V) ==
    {[present |-> FALSE, value |-> <<>>]} \cup
    {[present |-> TRUE, value |-> v] : v \in V}

\* A few emails: empty, white space, no @, well formed, well formed once trimmed.
SampleEmails ==
    {<<>>, <<" ">>, <<"a">>, <<"a", "@", "a", ".", "a">>,
     <<" ", "a", "@", "a", ".", "a">>}

\* const errors = validateForm(data)
CheckForm ==
    /\ formCalls < MaxFormCalls
    /\ formCalls' = formCalls + 1
    /\ IF Throws(data)
       THEN /\ formThrew' = TRUE
            /\ formChecked' = FALSE
            /\ UNCHANGED <<errors, firstErrors>>
       ELSE /\ formThrew' = FALSE
            /\ formChecked' = TRUE
            /\ errors' = validateForm(data)
            /\ firstErrors' = IF formCalls = 0 THEN validateForm(data)
                              ELSE firstErrors
    /\ UNCHANGED data
    /\ UNCHANGED <<rateVars, fieldVars, pageVars>>

\* Another mapping validateForm is called on between two calls on data.
OtherInputs ==
    {[name |-> <<>>, email |-> <<>>, message |-> <<>>],
     [name |-> <<"a">>, email |-> <<"a", "@", "a", ".", "a">>, message |-> <<"a">>]}

\* validateForm(d) for another mapping d, after a call on data.
CheckOther(d) ==
    /\ formChecked
    /\ errors' = validateForm(d)
    /\ formChecked' = FALSE
    /\ UNCHANGED <<data, formCalls, firstErrors, formThrew>>
    /\ UNCHANGED <<rateVars, fieldVars, pageVars>>

\* ------------------------------------------------------ validateField
\* A message is the sequence of the pieces of its text; '' is <<>>.
\* field.labels[0]?.textContent || 'This field', for a field without a label
\* ("none"), with a label of no text ("") or with a label.
LabelText(label) == IF label \in {"none", ""} THEN "This field" ELSE label

\* `${label} is required.`
RequiredText(label) == <<LabelText(label), " is required.">>
InvalidText == <<EmailInvalid>>

\* validateField's error, computed on the value as typed, without trim().
fieldErrorUntrimmed(f) ==
    LET value == f.value
        e1 == IF f.required /\ value = <<>> THEN RequiredText(f.label) ELSE <<>>
        e2 == IF f.type = "email" /\ value # <<>> /\ ~emailPattern(value)
              THEN InvalidText
              ELSE e1
    IN  e2

\* The error validateField computes: '' when the field is valid.
fieldError(f) ==
    LET value == Trim(f.value)
        e1 == IF f.required /\ value = <<>> THEN RequiredText(f.label) ELSE <<>>
        e2 == IF f.type = "email" /\ value # <<>> /\ ~emailPattern(value)
              THEN InvalidText
              ELSE e1
    IN  e2

\* field.parentNode.querySelector('.error-message') removed, if there is one.
RemoveFirst(c) == IF c = <<>> THEN c ELSE Tail(c)

\* showFieldError appending the new message without removing the old one.
showFieldErrorKeepsOld(f, c, message) ==
    [field |-> [f EXCEPT !.error = TRUE, !.ariaInvalid = "true"],
     container |-> Append(c, message)]

\* showFieldError(field, message): the field and its container afterwards.
showFieldError(f, c, message) ==
    [field |-> [f EXCEPT !.error = TRUE, !.ariaInvalid = "true"],
     container |-> Append(RemoveFirst(c), message)]

\* hideFieldError(field): the field and its container afterwards.
hideFieldError(f, c) ==
    [field |-> [f EXCEPT !.error = FALSE, !.ariaInvalid = "false"],
     container |-> RemoveFirst(c)]

\* validateField(field), as the blur listener calls it.
ValidateField ==
    /\ LET error == fieldError(field)
           after == IF error # <<>>
                    THEN showFieldError(field, container, error)
                    ELSE hideFieldError(field, container)
       IN  /\ field' = after.field
           /\ container' = after.container
           /\ fieldValid' = IF error # <<>> THEN "false" ELSE "true"
    /\ UNCHANGED <<rateVars, checkVars, pageVars>>

\* The input listener, run after the value changed to v.
InputListener(v) ==
    /\ field' = [field EXCEPT !.value = v, !.error = FALSE]
    /\ container' = RemoveFirst(container)
    /\ fieldValid' = "none"
    /\ UNCHANGED <<rateVars, checkVars, pageVars>>

\* A character typed at the end of the value.
TypeChar(c) ==
    /\ Len(field.value) < MaxFieldLen
    /\ InputListener(Append(field.value, c))

\* The last character of the value deleted.
DeleteChar ==
    /\ field.value # <<>>
    /\ InputListener(SubSeq(field.value, 1, Len(field.value) - 1))

\* -------------------------------------------------------- contact form
\* The text of a form message is the sequence of its pieces.
SuccessText == <<"Thank you for your message! We'll get back to you soon.">>

\* showFormErrors: the one error, or the heading followed by the bullets.
FormErrorsText(errs) ==
    IF Len(errs) = 1 THEN <<errs[1]>>
    ELSE <<"Please fix the following errors:">> \o errs

\* showFormMessage inserting the new element without removing the old one.
showFormMessageKeepsOld(msgs, id, text, type) ==
    <<[id |-> id, type |-> type, text |-> text]>> \o msgs

\* showFormMessage(message, type): the form's .form-message elements once the
\* existing one is removed and the new one, element id, is inserted first.
showFormMessage(msgs, id, text, type) ==
    <<[id |-> id, type |-> type, text |-> text]>> \o RemoveFirst(msgs)

\* An auto-hide callback removing whichever .form-message the form holds.
hideMessageAny(msgs, id) == RemoveFirst(msgs)

\* The auto-hide callback: its own element removed, if still in the form.
hideMessage(msgs, id) == SelectSeq(msgs, LAMBDA m : m.id # id)

\* form.reset(): every field back to its default value.
Defaults == [f \in Fields |-> <<>>]

\* The values typed into the fields of the contact form.
FieldValues(f) ==
    IF f = "email" THEN {<<>>, <<"a">>, <<"a", "@", "a", ".", "a">>}
    ELSE {<<>>, <<" ">>, <<"a">>}

\* The user changes the value of one field.
Fill(f, v) ==
    /\ values[f] # v
    /\ values' = [values EXCEPT ![f] = v]
    /\ UNCHANGED <<formMessages, submits, resets, lastHide, nav, lastEvent>>
    /\ UNCHANGED <<rateVars, checkVars, fieldVars>>

\* The submit listener, showFormMessage or showFormErrors included.
Submit ==
    /\ submits < MaxSubmits
    /\ submits' = submits + 1
    /\ LET errs == validateForm(values)
           id == submits + 1
       IN  IF Len(errs) = 0
           THEN /\ formMessages' =
                       showFormMessage(formMessages, id, SuccessText, "success")
                /\ timers' = setTimeout(timers, nextId, "form", "hide",
                                        HideDelay, id, 0)
                /\ nextId' = nextId + 1
                /\ values' = Defaults
                /\ resets' = resets + 1
           ELSE /\ formMessages' =
                       showFormMessage(formMessages, id, FormErrorsText(errs),
                                       "error")
                /\ UNCHANGED <<timers, nextId, values, resets>>
    /\ UNCHANGED <<now, wrapperVars, checkVars, fieldVars, lastHide, nav, lastEvent>>

\* The callback of the auto-hide timer of element t.args runs.
HideMessage(t) ==
    /\ t \in timers
    /\ t.cb = "hide"
    /\ t.due <= now
    /\ timers' = timers \ {t}
    /\ formMessages' = hideMessage(formMessages, t.args)
    /\ lastHide' = IF \E i \in 1..Len(formMessages) : formMessages[i].id = t.args
                   THEN "removed"
                   ELSE "nothing"
    /\ UNCHANGED <<now, nextId, wrapperVars, checkVars, fieldVars>>
    /\ UNCHANGED <<values, submits, resets, nav, lastEvent>>

\* ---------------------------------------------------------- navigation
\* Where a click lands: on the toggle, on a link of the menu, elsewhere in the
\* menu, on an anchor outside the menu, or elsewhere on the page.
Targets == {"toggle", "link", "menu", "anchor", "page"}
\* The href of a link: an in-page anchor whose target exists, one whose
\* target does not, or another page.
Sections == {"#home", "#about", "#contact"}
Hrefs == Sections \cup {"#missing", "other"}
Keys == {"Escape", "Enter"}

\* The three statements that close the menu.
Close(n) ==
    [n EXCEPT !.menuActive = FALSE, !.ariaExpanded = "false",
              !.toggleActive = FALSE]

\* The click listener of the toggle.
toggleClick(n) ==
    LET isOpen == n.menuActive
    IN  [n EXCEPT !.menuActive = ~n.menuActive,
                  !.ariaExpanded = IF isOpen THEN "false" ELSE "true",
                  !.toggleActive = ~n.toggleActive,
                  !.focus = IF ~isOpen THEN "link" ELSE @]

\* A document click listener that leaves the menu alone.
documentClickNothing(n, target) == n

\* A document click listener that closes the menu wherever the click lands.
documentClickAnywhere(n, target) == Close(n)

\* The click listener of the document.
documentClick(n, target) ==
    IF target \notin {"toggle"} /\ target \notin {"link", "menu"}
    THEN Close(n)
    ELSE n

\* The keydown listener of the document.
documentKeydown(n, key) ==
    IF key = "Escape" /\ n.menuActive
    THEN [Close(n) EXCEPT !.focus = "toggle"]
    ELSE n

\* The click listener of a link of the menu.
linkClick(n) == Close(n)

\* The click listener of an in-page anchor a[href^="#"].
anchorClick(n, href) ==
    IF href \in Sections
    THEN [n EXCEPT !.menuActive = FALSE,
                   !.ariaExpanded = IF n.menuActive THEN "false" ELSE @,
                   !.scrolledTo = href,
                   !.focus = href]
    ELSE n

\* The listeners of the target itself, in the order they were added.
targetClick(n, target, href) ==
    LET n1 == IF target = "toggle" THEN toggleClick(n)
              ELSE IF target = "link" THEN linkClick(n)
              ELSE n
    IN  IF target \in {"link", "anchor"} /\ href # "other"
        THEN anchorClick(n1, href)
        ELSE n1

\* A click is dispatched: to the listeners of its target, then to the
\* document's.
Click(target, href) ==
    /\ IF target \in {"link", "anchor"} THEN href \in Hrefs ELSE href = "none"
    /\ nav' = documentClick(targetClick(nav, target, href), target)
    /\ lastEvent' = [on |-> target, href |-> href, open |-> nav.menuActive]
    /\ UNCHANGED <<values, formMessages, submits, resets, lastHide>>
    /\ UNCHANGED <<rateVars, checkVars, fieldVars>>

\* A key is pressed.
Keydown(key) ==
    /\ nav' = documentKeydown(nav, key)
    /\ lastEvent' = [on |-> key, href |-> "none", open |-> nav.menuActive]
    /\ UNCHANGED <<values, formMessages, submits, resets, lastHide>>
    /\ UNCHANGED <<rateVars, checkVars, fieldVars>>

\* ------------------------------------------------------- specifications
RateInit ==
    /\ now = 0
    /\ nextId = 1
    /\ timers = {}
    /\ inThrottle = [w \in Throttled |-> "undefined"]
    /\ timeout = [w \in Debounced |-> Undefined]
    /\ ncalls = [w \in Wrappers |-> 0]
    /\ lastArgs = [w \in Wrappers |-> "none"]
    /\ invoked = [w \in Wrappers |-> <<>>]
    /\ frames = <<>>

FormIdle ==
    /\ data = <<>>
    /\ errors = <<>>
    /\ formChecked = FALSE
    /\ formCalls = 0
    /\ firstErrors = <<>>
    /\ formThrew = FALSE

\* The name input of the contact form, untouched.
FieldIdle ==
    /\ field = [type |-> "text", required |-> TRUE, label |-> "Name",
                value |-> <<>>, error |-> FALSE, ariaInvalid |-> "unset"]
    /\ container = <<>>
    /\ fieldValid = "none"

\* The page as loaded: empty form without a message, menu closed.
PageIdle ==
    /\ values = Defaults
    /\ formMessages = <<>>
    /\ submits = 0
    /\ resets = 0
    /\ lastHide = "none"
    /\ nav = [menuActive |-> FALSE, ariaExpanded |-> "false",
              toggleActive |-> FALSE, focus |-> "none", scrolledTo |-> "none"]
    /\ lastEvent = [on |-> "none", href |-> "none", open |-> FALSE]

Init == RateInit /\ FormIdle /\ FieldIdle /\ PageIdle

Next ==
    \/ \E w \in Throttled, a \in ArgVals : ThrottledCall(w, a)
    \/ \E t \in timers : ThrottleReset(t)
    \/ \E w \in Debounced, a \in ArgVals : DebouncedCall(w, a)
    \/ \E t \in timers : Later(t)
    \/ Tick

Spec == Init /\ [][Next]_vars

\* The debounced wrappers alone, under a timer queue and a clock that make
\* progress: time passes, and a timer that is due runs.
LiveNext ==
    \/ \E w \in Debounced, a \in ArgVals : DebouncedCall(w, a)
    \/ \E t \in timers : Later(t)
    \/ Tick

LiveSpec ==
    /\ Init
    /\ [][LiveNext]_vars
    /\ WF_vars(Tick)
    /\ WF_vars(\E t \in timers : Later(t))

\* The form validator on every mapping it can be handed.
FormInit ==
    /\ RateInit
    /\ \E n \in Entries(TextValues), e \in Entries(EmailValues),
          m \in Entries(TextValues) :
            data = FormData(n, e, m)
    /\ errors = <<>>
    /\ formChecked = FALSE
    /\ formCalls = 0
    /\ firstErrors = <<>>
    /\ formThrew = FALSE
    /\ FieldIdle
    /\ PageIdle

FormNext == CheckForm

SpecForm == FormInit /\ [][FormNext]_vars

\* validateForm called again and again on one mapping, with calls on other
\* mappings in between.
PureInit ==
    /\ RateInit
    /\ \E n \in Entries(TextValues), e \in Entries(SampleEmails),
          m \in Entries(TextValues) :
            data = FormData(n, e, m)
    /\ errors = <<>>
    /\ formChecked = FALSE
    /\ formCalls = 0
    /\ firstErrors = <<>>
    /\ formThrew = FALSE
    /\ FieldIdle
    /\ PageIdle

PureNext ==
    \/ CheckForm
    \/ \E d \in OtherInputs : CheckOther(d)

SpecPure == PureInit /\ [][PureNext]_vars

\* One field of any kind, typed into and validated on blur.
FieldTypes == {"text", "email", "textarea"}
FieldLabels == {"none", "", "Name"}

FieldInit ==
    /\ RateInit
    /\ FormIdle
    /\ \E type \in FieldTypes, required \in BOOLEAN, label \in FieldLabels :
            field = [type |-> type, required |-> required, label |-> label,
                     value |-> <<>>, error |-> FALSE, ariaInvalid |-> "unset"]
    /\ container = <<>>
    /\ fieldValid = "none"
    /\ PageIdle

FieldNext ==
    \/ ValidateField
    \/ \E c \in Chars : TypeChar(c)
    \/ DeleteChar

SpecField == FieldInit /\ [][FieldNext]_vars

\* A required email field and the email entry of the mapping holding the same
\* raw value, each handed to its validator.
AgreeInit ==
    /\ RateInit
    /\ \E v \in EmailValues, label \in FieldLabels :
            /\ field = [type |-> "email", required |-> TRUE, label |-> label,
                        value |-> v, error |-> FALSE, ariaInvalid |-> "unset"]
            /\ data = [name |-> <<"a">>, email |-> v, message |-> <<"a">>]
    /\ container = <<>>
    /\ fieldValid = "none"
    /\ errors = <<>>
    /\ formChecked = FALSE
    /\ formCalls = 0
    /\ firstErrors = <<>>
    /\ formThrew = FALSE
    /\ PageIdle

AgreeNext ==
    \/ ValidateField
    \/ CheckForm

SpecAgree == AgreeInit /\ [][AgreeNext]_vars

\* The throttled wrappers over an fn that may call a wrapper while it runs.
ReentrantNext ==
    \/ \E w \in Throttled, a \in ArgVals : ReentrantCall(w, a)
    \/ FnReturns
    \/ \E t \in timers : ResetWhenIdle(t)
    \/ Tick

SpecReentrant == Init /\ [][ReentrantNext]_vars

\* The contact form, filled in and submitted, and its auto-hide timers.
PageNext ==
    \/ \E f \in Fields : \E v \in FieldValues(f) : Fill(f, v)
    \/ Submit
    \/ \E t \in timers : HideMessage(t)
    \/ Tick

SpecPage == Init /\ [][PageNext]_vars

\* The navigation menu under clicks and key presses.
NavNext ==
    \/ \E target \in Targets, href \in Hrefs \cup {"none"} : Click(target, href)
    \/ \E key \in Keys : Keydown(key)

SpecNav == Init /\ [][NavNext]_vars

\* ================================================================ claims
\* ------------------------------------------------------- rate limiters
\* The pending reset timers of throttled wrapper w, the pending later timers of
\* debounced wrapper w.
ResetsOf(w) == {t \in timers : t.w = w /\ t.cb = "reset"}
LatersOf(w) == {t \in timers : t.w = w /\ t.cb = "later"}
TimersOf(w) == {t \in timers : t.w = w}

\* This step is a call of wrapper w.
IsCall(w) == ncalls'[w] = ncalls[w] + 1
\* This step made w invoke fn once more, for the call just made and with its arguments.
InvokesForThisCall(w) ==
    invoked'[w] = Append(invoked[w], [args |-> lastArgs'[w], call |-> ncalls'[w]])
NoInvocation(w) == invoked'[w] = invoked[w]
LastInvoked(w) == invoked[w][Len(invoked[w])]

\* C1: a call of a throttled wrapper made while the window is not active (none
\* made yet, or the reset timer has fired) invokes fn at once with that call's
\* arguments; a call made while the window is active (the reset timer pending)
\* is dropped, and nothing but a call invokes fn, so a dropped call is not
\* served later.  While the reset timer of the first call is pending fn has
\* been invoked exactly once.
C1Step(w) ==
    /\ (IsCall(w) /\ Not(inThrottle[w])) => InvokesForThisCall(w)
    /\ (IsCall(w) /\ ~Not(inThrottle[w])) => NoInvocation(w)
    /\ ~IsCall(w) => NoInvocation(w)
    /\ Not(inThrottle'[w]) <=> ResetsOf(w)' = {}
    /\ (\E t \in ResetsOf(w)' : t.call = 1) => Len(invoked'[w]) = 1

C1_ThrottleLeadingEdge == [][\A w \in Throttled : C1Step(w)]_vars

\* Three calls, the second inside the window and the third after the reset
\* timer fired: fn ran for the first and the third, twice in total.
C1_Witness ==
    /\ ncalls["t1"] = 3
    /\ Len(invoked["t1"]) = 2
    /\ invoked["t1"][1].call = 1
    /\ invoked["t1"][2].call = 3
    /\ invoked["t1"][2].args = lastArgs["t1"]

\* C2: the reset of a throttled wrapper is scheduled only by a call that
\* invoked fn, for Limit after that call; a dropped call leaves the pending
\* reset as it is; and the window reopens only by the reset of the last call
\* that invoked fn running, not before it is due.
C2Step(w) ==
    /\ (Len(invoked'[w]) > Len(invoked[w])) =>
           \E t \in timers' :
               /\ ResetsOf(w)' = ResetsOf(w) \cup {t}
               /\ t \notin timers
               /\ t.due = now + Limit
               /\ t.call = ncalls'[w]
    /\ (Len(invoked'[w]) = Len(invoked[w])) => ResetsOf(w)' \subseteq ResetsOf(w)
    /\ (IsCall(w) /\ NoInvocation(w)) => ResetsOf(w)' = ResetsOf(w)
    /\ (inThrottle[w] = "true" /\ inThrottle'[w] # "true") =>
           \E t \in ResetsOf(w) :
               /\ t \notin timers'
               /\ t.due <= now
               /\ t.call = LastInvoked(w).call
    /\ Cardinality(ResetsOf(w)') <= 1

C2_ResetByLeadingCallOnly == [][\A w \in Throttled : C2Step(w)]_vars

\* A call dropped one tick into the window; the reset is still the one the
\* leading call scheduled.
C2_Witness ==
    /\ ncalls["t1"] = 2
    /\ Len(invoked["t1"]) = 1
    /\ now = 1
    /\ \E t \in ResetsOf("t1") : t.call = 1 /\ t.due = Limit

\* C3: a debounced wrapper without immediate never invokes fn at a call; when
\* its pending later runs it invokes fn once, for the last call made and with
\* that call's arguments; and whenever nothing is pending after some calls,
\* the last invocation is the one for the last call.
C3Step(w) ==
    /\ IsCall(w) => NoInvocation(w)
    /\ (~IsCall(w) /\ LatersOf(w) # {} /\ LatersOf(w)' = {}) =>
           invoked'[w] = Append(invoked[w],
                                [args |-> lastArgs[w], call |-> ncalls[w]])
    /\ (~IsCall(w) /\ LatersOf(w)' = LatersOf(w)) => NoInvocation(w)
    /\ (LatersOf(w)' = {} /\ ncalls'[w] > 0) =>
           /\ invoked'[w] # <<>>
           /\ invoked'[w][Len(invoked'[w])].call = ncalls'[w]
    /\ \A i \in 1..Len(invoked'[w]), j \in 1..Len(invoked'[w]) :
           i < j => invoked'[w][i].call < invoked'[w][j].call

C3_DebounceTrailingEdge ==
    [][\A w \in Debounced : ~immediate(w) => C3Step(w)]_vars

\* A burst of three calls, then the deferred call: fn ran once, for the third.
C3_Witness ==
    /\ ncalls["d1"] = 3
    /\ LatersOf("d1") = {}
    /\ Len(invoked["d1"]) = 1
    /\ invoked["d1"][1] = [args |-> lastArgs["d1"], call |-> 3]

\* C4: a debounced wrapper with immediate invokes fn at a call made when no
\* deferred call is pending, with that call's arguments; a call made while one
\* is pending invokes nothing, and neither does the deferred call running.
\* Once it has run nothing is pending, so the next call invokes fn again.
C4Step(w) ==
    /\ (IsCall(w) /\ LatersOf(w) = {}) => InvokesForThisCall(w)
    /\ (IsCall(w) /\ LatersOf(w) # {}) => NoInvocation(w)
    /\ ~IsCall(w) => NoInvocation(w)
    /\ Falsy(timeout'[w]) <=> LatersOf(w)' = {}

C4_DebounceImmediate ==
    [][\A w \in Debounced : immediate(w) => C4Step(w)]_vars

\* Two calls in one burst, the deferred call, then a third call: fn ran for
\* the first and the third.
C4_Witness ==
    /\ ncalls["i1"] = 3
    /\ Len(invoked["i1"]) = 2
    /\ invoked["i1"][1].call = 1
    /\ invoked["i1"][2].call = 3

\* C5: a debounced wrapper has at most one deferred call pending, the one its
\* timeout names, and it is the deferred call of the latest call: the deferred
\* call of a superseded call is no longer in the timer queue and cannot run.
C5_AtMostOnePending ==
    \A w \in Debounced :
        /\ Cardinality(LatersOf(w)) <= 1
        /\ \A t \in LatersOf(w) : t.id = timeout[w] /\ t.call = ncalls[w]

\* Two calls to one wrapper in a row: only the second one's later is pending.
C5_Witness ==
    /\ ncalls["d1"] = 2
    /\ Cardinality(LatersOf("d1")) = 1
    /\ invoked["d1"] = <<>>

\* C6: for a debounced wrapper without immediate, under timers that eventually
\* run: after its k-th call, either another call follows or fn is eventually
\* invoked for the k-th call with its arguments; and a call never invokes fn,
\* so fn is not invoked as long as calls keep coming before the deferred one.
C6_Served(w, k) ==
    /\ invoked[w] # <<>>
    /\ LastInvoked(w) = [args |-> lastArgs[w], call |-> k]

C6_DebounceLiveness ==
    /\ \A w \in {v \in Debounced : ~immediate(v)} : \A k \in 1..MaxCalls :
           (ncalls[w] = k) ~> (ncalls[w] > k \/ C6_Served(w, k))
    /\ [][\A w \in {v \in Debounced : ~immediate(v)} :
              (IsCall(w) \/ LatersOf(w)' # {}) => NoInvocation(w)]_vars

\* The second call of a wrapper was the last one, and fn has run for it.
C6_Witness ==
    /\ ncalls["d2"] = 2
    /\ C6_Served("d2", 2)
    /\ LatersOf("d2") = {}

\* C7: what a wrapper holds (its flag or timeout, its pending timers, its
\* invocations) changes only in a step of its own: a call made to it, or one
\* of its own timers running.
OwnState(w) ==
    <<IF w \in Throttled THEN inThrottle[w] ELSE "none",
      IF w \in Debounced THEN timeout[w] ELSE Undefined,
      TimersOf(w), invoked[w], ncalls[w], lastArgs[w]>>

OwnStep(w) ==
    \/ IsCall(w)
    \/ ncalls' = ncalls /\ \E t \in TimersOf(w) : timers' = timers \ {t}

C7_WrappersIndependent ==
    [][\A w \in Wrappers : OwnState(w)' # OwnState(w) => OwnStep(w)]_vars

\* Inside t1's window, t2 still takes its first call; with d1's deferred call
\* pending, d2 has none.
C7_Witness ==
    /\ inThrottle["t1"] = "true"
    /\ inThrottle["t2"] = "true"
    /\ Len(invoked["t1"]) = 1
    /\ Len(invoked["t2"]) = 1
    /\ Cardinality(ResetsOf("t1") \cup ResetsOf("t2")) = 2
    /\ ncalls["d1"] = 1
    /\ LatersOf("d1") # {}
    /\ LatersOf("d2") = {}

\* ---------------------------------------------------------------- form
Present(f) == f \in DOMAIN data
NonEmpty(f) == Present(f) /\ data[f] # <<>>
NonBlank(f) == Present(f) /\ Trim(data[f]) # <<>>
Has(e) == \E i \in 1..Len(errors) : errors[i] = e

\* C8 as stated: whenever name, email and message are all non-empty and the
\* email matches the pattern, validateForm returns the empty list.
C8_NonEmptyFieldsPass ==
    (formChecked /\ NonEmpty("name") /\ NonEmpty("email") /\ NonEmpty("message")
        /\ emailPattern(data["email"]))
    => errors = <<>>

\* C8 as amended: whenever name and message are non-empty after trimming, the
\* email is non-empty and the email matches the pattern, validateForm returns
\* the empty list.
C8_NonBlankFieldsPass ==
    (formChecked /\ NonBlank("name") /\ NonEmpty("email") /\ NonBlank("message")
        /\ emailPattern(data["email"]))
    => errors = <<>>

C8_Witness ==
    /\ formChecked
    /\ data = [name |-> <<"a">>, email |-> <<".", "@", "a", ".", "a">>,
               message |-> <<"a">>]
    /\ errors = <<>>

\* C9: validateForm returns the empty list if and only if the name is non-empty
\* after trimming, the email is non-empty after trimming and matches the email
\* pattern, and the message is non-empty after trimming.
C9_EmptyIffAllPass ==
    formChecked =>
        (errors = <<>> <=>
            /\ NonBlank("name")
            /\ NonBlank("email") /\ emailPattern(data["email"])
            /\ NonBlank("message"))

\* A name and a message that pass, and an email that matches the pattern only
\* once trimmed: the list is not empty.
C9_Witness ==
    /\ formChecked
    /\ data = [name |-> <<"a">>, email |-> <<" ", "a", "@", "a", ".", "a">>,
               message |-> <<"a">>]
    /\ errors = <<EmailInvalid>>

Rank(e) ==
    CASE e = NameRequired -> 1
      [] e \in {EmailRequired, EmailInvalid} -> 2
      [] e = MessageRequired -> 3
      [] OTHER -> 0

\* C10: the returned list is a subsequence of [name error, email error, message
\* error] in that order, holds a field's error whenever that field fails,
\* whatever the other fields are, has at most three entries and never holds
\* both email errors.
C10_OrderedIndependentChecks ==
    formChecked =>
        /\ \A i \in 1..Len(errors) : Rank(errors[i]) # 0
        /\ \A i \in 1..Len(errors), j \in 1..Len(errors) :
               i < j => Rank(errors[i]) < Rank(errors[j])
        /\ ~NonBlank("name") => Has(NameRequired)
        /\ ~NonBlank("email") => Has(EmailRequired)
        /\ (NonBlank("email") /\ ~emailPattern(data["email"])) => Has(EmailInvalid)
        /\ ~NonBlank("message") => Has(MessageRequired)
        /\ Len(errors) <= 3
        /\ ~(Has(EmailRequired) /\ Has(EmailInvalid))

C10_Witness ==
    /\ formChecked
    /\ ~Present("name")
    /\ Present("email") /\ data["email"] = <<"a", "@", " ", ".", "a">>
    /\ Present("message") /\ data["message"] = <<" ">>
    /\ errors = <<NameRequired, EmailInvalid, MessageRequired>>

\* C11: on the mapping whose name, email and message are all the empty string,
\* validateForm returns exactly the three required messages, name first, then
\* email, then message.
C11_AllEmptyGivesThreeRequired ==
    (formChecked /\ data = [name |-> <<>>, email |-> <<>>, message |-> <<>>])
    => errors = <<NameRequired, EmailRequired, MessageRequired>>

C11_Witness ==
    /\ formChecked
    /\ DOMAIN data = Fields
    /\ \A f \in Fields : data[f] = <<>>
    /\ Len(errors) = 3

\* C12 as stated: whenever name and message are non-empty and the email is
\* non-empty and does not match the pattern, validateForm returns exactly the
\* invalid-address message.
C12_NonEmptyBadEmail ==
    (formChecked /\ NonEmpty("name") /\ NonEmpty("message") /\ NonEmpty("email")
        /\ ~emailPattern(data["email"]))
    => errors = <<EmailInvalid>>

\* C12 as amended: whenever name, email and message are non-empty after
\* trimming and the email does not match the pattern, validateForm returns
\* exactly the invalid-address message.
C12_NonBlankBadEmail ==
    (formChecked /\ NonBlank("name") /\ NonBlank("message") /\ NonBlank("email")
        /\ ~emailPattern(data["email"]))
    => errors = <<EmailInvalid>>

\* A name, a message and an email without an @.
C12_Witness ==
    /\ formChecked
    /\ data = [name |-> <<"a">>, email |-> <<"a", ".", "a">>, message |-> <<"a">>]
    /\ errors = <<EmailInvalid>>

RequiredMessage(f) ==
    CASE f = "name" -> NameRequired
      [] f = "email" -> EmailRequired
      [] f = "message" -> MessageRequired

\* C16: every call of validateForm returns a list and none ends in an error,
\* whichever of the three keys are absent; every entry of the list is one of
\* the four messages, and an absent key is reported with its required message.
C16_FailuresAreData ==
    formCalls > 0 =>
        /\ ~formThrew
        /\ formChecked
        /\ \A i \in 1..Len(errors) : Rank(errors[i]) # 0
        /\ \A f \in Fields : ~Present(f) => Has(RequiredMessage(f))

\* The mapping without any key.
C16_Witness ==
    /\ formChecked
    /\ DOMAIN data = {}
    /\ errors = <<NameRequired, EmailRequired, MessageRequired>>

\* ---------------------------------------------------------------- field
\* C14: validateField returns false exactly when the field is required and its
\* trimmed value is empty, or its kind is email and its trimmed value is
\* non-empty and does not match the email pattern; otherwise it returns true.
C14_FieldValidIffNoError ==
    fieldValid # "none" =>
        (fieldValid = "false" <=>
            \/ field.required /\ Trim(field.value) = <<>>
            \/ /\ field.type = "email"
               /\ Trim(field.value) # <<>>
               /\ ~emailPattern(Trim(field.value)))

\* A required field holding white space only: false.
C14_Witness ==
    /\ fieldValid = "false"
    /\ field.required
    /\ field.type = "text"
    /\ field.value = <<" ", " ">>

\* C15: the container of the field never holds more than one error message;
\* after a call that returned true it holds none; after a call that returned
\* false it holds the required message (with the label's text, or "This
\* field") exactly when the trimmed value is empty, and the invalid-address
\* message exactly when it is not.
C15_AtMostOneFieldError ==
    /\ Len(container) <= 1
    /\ fieldValid = "true" => container = <<>>
    /\ fieldValid = "false" =>
           /\ Len(container) = 1
           /\ Trim(field.value) = <<>> =>
                  container[1] =
                      <<IF field.label \in {"none", ""} THEN "This field"
                        ELSE field.label,
                        " is required.">>
           /\ Trim(field.value) # <<>> => container[1] = <<EmailInvalid>>

\* A required email field found malformed, emptied, and found empty: only the
\* required message is left.
C15_Witness ==
    /\ fieldValid = "false"
    /\ field.type = "email"
    /\ field.label = "none"
    /\ field.value = <<>>
    /\ field.ariaInvalid = "true"
    /\ container = <<<<"This field", " is required.">>>>

\* ----------------------------------------------------------- contact form
\* C17: a submit shows the success message and resets the form exactly when
\* validateForm returned an empty list for the form's values; otherwise it
\* shows an error message and leaves the values as they were. The form never
\* holds more than one form message, and the one it holds is that of the
\* latest submit.
C17_SubmitShowsOutcome ==
    /\ [](/\ Len(formMessages) <= 1
          /\ formMessages # <<>> => formMessages[1].id = submits)
    /\ [][submits' # submits =>
            LET errs == validateForm(values)
            IN  /\ formMessages' # <<>>
                /\ errs = <<>> <=>
                       /\ formMessages'[1].type = "success"
                       /\ formMessages'[1].text = SuccessText
                       /\ resets' = resets + 1
                       /\ values' = [f \in Fields |-> <<>>]
                /\ errs # <<>> =>
                       /\ formMessages'[1].type = "error"
                       /\ formMessages'[1].text # SuccessText
                       /\ resets' = resets
                       /\ values' = values]_vars

\* A successful submit followed by a failing one: the error message of the
\* second replaced the success message of the first, the typed name is kept.
C17_Witness ==
    /\ submits = 2
    /\ resets = 1
    /\ Len(formMessages) = 1
    /\ formMessages[1].type = "error"
    /\ formMessages[1].id = 2
    /\ values["name"] = <<"a">>

\* C20: when an auto-hide timer fires, the form loses the success message the
\* timer was set for and nothing else; no timer is set for an error message,
\* and an error message leaves the form only when a later submit replaces it.
C20_HideRemovesOnlyItsOwn ==
    /\ [](\A i \in 1..Len(formMessages) :
              formMessages[i].type = "error" =>
                  ~\E t \in timers : t.cb = "hide" /\ t.args = formMessages[i].id)
    /\ [][/\ \A t \in timers :
                 (t \notin timers' /\ t.cb = "hide") =>
                     /\ Len(formMessages') =
                            Cardinality({i \in 1..Len(formMessages) :
                                             formMessages[i].id # t.args})
                     /\ \A i \in 1..Len(formMessages) :
                            formMessages[i].id # t.args =>
                                \E j \in 1..Len(formMessages') :
                                    formMessages'[j] = formMessages[i]
          /\ (submits' = submits /\ formMessages' # formMessages) =>
                 \A i \in 1..Len(formMessages) : formMessages[i].type = "success"]_vars

\* The timer of a replaced success message fired and removed nothing: the
\* message of the second submit is still in the form.
C20_Witness ==
    /\ lastHide = "nothing"
    /\ Len(formMessages) = 1
    /\ formMessages[1].id = 2
    /\ formMessages[1].type = "success"

\* ------------------------------------------------------------- navigation
\* C18: a step that opens the menu is a click on the toggle; a click on the
\* toggle flips the menu; after a click outside the toggle and the menu, an
\* Escape key press or a click on a link of the menu the menu is closed; an
\* Escape key press that finds the menu closed changes nothing.
C18_OnlyToggleOpens ==
    [][/\ (~nav.menuActive /\ nav'.menuActive) => lastEvent'.on = "toggle"
       /\ lastEvent'.on = "toggle" => nav'.menuActive = ~nav.menuActive
       /\ lastEvent'.on \in {"page", "anchor", "link", "Escape"} =>
              ~nav'.menuActive
       /\ (lastEvent'.on = "Escape" /\ ~nav.menuActive) => nav' = nav]_vars

\* Escape pressed on the open menu: closed, focus on the toggle.
C18_Witness ==
    /\ lastEvent.on = "Escape"
    /\ lastEvent.open
    /\ ~nav.menuActive
    /\ nav.focus = "toggle"

\* C19: after every completed event the menu is active exactly when the toggle
\* is active and exactly when aria-expanded is "true".
C19_MenuToggleAriaAgree ==
    /\ nav.menuActive <=> nav.toggleActive
    /\ nav.menuActive <=> nav.ariaExpanded = "true"

\* A click on an in-page anchor outside the open menu: all three closed.
C19_Witness ==
    /\ lastEvent.on = "anchor"
    /\ lastEvent.href = "#about"
    /\ lastEvent.open
    /\ nav.scrolledTo = "#about"
    /\ ~nav.menuActive
    /\ ~nav.toggleActive
    /\ nav.ariaExpanded = "false"

\* -------------------------------------------------------- field markers
\* C21: after any sequence of blur and input events on a field its markers
\* agree: aria-invalid is "true" exactly when the field has the class error,
\* and exactly when its container holds an error message.
C21_MarkersAgree ==
    /\ field.ariaInvalid = "true" <=> field.error
    /\ field.error <=> container # <<>>

\* What the code keeps: the class and the message go together, and both imply
\* aria-invalid "true"; the input listener leaves aria-invalid as it was.
C21_ClassAndMessageAgree ==
    /\ field.error <=> container # <<>>
    /\ field.error => field.ariaInvalid = "true"

\* A field found in error and then typed into: no class, no message, still
\* aria-invalid "true".
C21_StaleAriaInvalid ==
    /\ field.ariaInvalid = "true"
    /\ ~field.error
    /\ container = <<>>
    /\ fieldValid = "none"

\* ------------------------------------------------------ the two validators
\* C22: for a required email field and the email entry of the mapping holding
\* the same raw value, validateField returns true exactly when validateForm
\* reports no email error, and a failure is the required error in both or the
\* invalid-address error in both.
C22_ValidatorsAgree ==
    (fieldValid # "none" /\ formChecked /\ data["email"] = field.value) =>
        /\ fieldValid = "true" <=> (~Has(EmailRequired) /\ ~Has(EmailInvalid))
        /\ fieldValid = "false" =>
               /\ container # <<>>
               /\ container[1] = <<EmailInvalid>> <=> Has(EmailInvalid)
               /\ container[1] # <<EmailInvalid>> <=> Has(EmailRequired)

\* The two validators agree on every value without white space at its ends.
C22_AgreeOnTrimmedValues ==
    (fieldValid # "none" /\ formChecked /\ Trim(field.value) = field.value) =>
        /\ fieldValid = "true" <=> (~Has(EmailRequired) /\ ~Has(EmailInvalid))
        /\ fieldValid = "false" =>
               /\ container # <<>>
               /\ container[1] = <<EmailInvalid>> <=> Has(EmailInvalid)
               /\ container[1] # <<EmailInvalid>> <=> Has(EmailRequired)

\* " a@a.a": validateField returned true, validateForm reported the address
\* as invalid.
C22_Disagreement ==
    /\ fieldValid = "true"
    /\ formChecked
    /\ data["email"] = field.value
    /\ field.value = <<" ", "a", "@", "a", ".", "a">>
    /\ errors = <<EmailInvalid>>

\* ------------------------------------------------------------ re-entrancy
\* C23: a call of a throttled wrapper made from inside fn, while the
\* invocation of fn that the wrapper's leading call started is still running,
\* is dropped: it does not invoke fn.
C23_ReentrantCallDropped ==
    [][\A w \in Throttled :
           (IsCall(w) /\ \E i \in 1..Len(frames) : frames[i].w = w) =>
               NoInvocation(w)]_vars

\* Two calls of t1 at the same instant, the second from inside fn: fn was
\* invoked for both, and each scheduled a reset.
C23_InvokedTwiceInOneWindow ==
    /\ now = 0
    /\ frames = <<>>
    /\ ncalls["t1"] = 2
    /\ Len(invoked["t1"]) = 2
    /\ Cardinality(ResetsOf("t1")) = 2

====
